---------------------------- MODULE Spec2Model ----------------------------
(***************************************************************************)
(* GPU telemetry harvester of bottom: the NVIDIA probe (get_nvidia_vecs),  *)
(* the macOS probe (get_apple_gpu_vecs), the shared metric model           *)
(* (GpuMetric::as_percentage) and the per-device process merge.            *)
(*                                                                         *)
(* f32 values are modelled as exact rationals <<n, d>> in lowest terms     *)
(* with d > 0; <<1, 0>>, <<-1, 0>> and <<0, 0>> stand for +inf, -inf and   *)
(* NaN, the results IEEE division gives for a zero divisor.  Rounding of   *)
(* f32 arithmetic is not modelled.                                         *)
(***************************************************************************)
EXTENDS Integers, Sequences, FiniteSets, TLC

VARIABLES
    \* ---- metric model (GpuMetric::as_percentage applied to one metric)
    metric,         \* the GpuMetric last projected, or NoMetric
    pct,            \* as_percentage(metric)
    \* ---- per-device process merge (the `procs` HashMap of one device)
    procs,          \* pid -> [mem, util]
    pass,           \* number of source passes already applied (0..4)
    reported,       \* pass -> what that source reported, summarised per pid
    \* ---- NVIDIA probe
    target_os,      \* "linux" | "windows" | "macos" (cfg(target_os), features)
    nvml_data,      \* NVML_DATA: "uninit" | "ok" | "err"
    init_runs,      \* how many times init_nvml has run in this process
    fallback_runs,  \* how many times the lib_path fallback has been attempted
    ncalls,         \* harvest calls made so far in this process
    pc,             \* position inside the running probe call
    flags,          \* widgets_to_harvest: use_mem, use_temp, use_proc, use_gpu
    filter,         \* the optional temperature name filter
    num_gpu,        \* device_count() of this call
    idx,            \* loop index i
    mem_vec, temp_vec, proc_vec, gpu_data_vec, total_mem,
    native,         \* the native (NVML) entry points this call has invoked
    device,         \* what the driver answered in the loop step just taken
    result,         \* what the probe call returned
    \* ---- macOS probe
    iterator,       \* number of services the IOKit iterator still holds
    service,        \* what the registry answered for the service last visited
    a_vec,          \* gpu_data_vec of collect_gpu_data
    io_log,         \* every IOKit call of this probe call, in order
    \* ---- GPU widget (GpuWidgetState)
    table,          \* the rows of the legend table
    force_update_data,
    widget_op       \* the last operation on the widget and what it was given

metric_vars == <<metric, pct>>
merge_vars  == <<procs, pass, reported>>
nvml_vars   == <<nvml_data, init_runs, fallback_runs>>
call_vars   == <<ncalls, pc, flags, filter, result>>
loop_vars   == <<num_gpu, idx, mem_vec, temp_vec, proc_vec,
                 gpu_data_vec, total_mem, native, device>>
apple_vars  == <<iterator, service, a_vec, io_log>>
widget_vars == <<table, force_update_data, widget_op>>
vars == <<metric_vars, merge_vars, target_os, nvml_vars, call_vars,
          loop_vars, apple_vars, widget_vars>>

-----------------------------------------------------------------------------
(* Bounds of the model *)

MaxMw      == 6   \* power draw and limit range over 0..MaxMw
MaxGpu     == 2   \* device_count() answers 0..MaxGpu
MaxCalls   == 3   \* harvest calls of one process, where a process makes several
MaxSessionGpu == 1   \* device_count() answers 0..MaxSessionGpu in such a process
MaxProcLen == 2   \* length of one process-query answer
MaxService == 2   \* services behind one IOKit iterator
MaxLegend  == 2   \* devices handed to the legend table at once

-----------------------------------------------------------------------------
(* Option, Result and f32 *)

None    == [some |-> FALSE]
Some(v) == [some |-> TRUE, val |-> v]
Err     == [ok |-> FALSE]
Ok(v)   == [ok |-> TRUE, val |-> v]

Abs(n) == IF n < 0 THEN -n ELSE n

RECURSIVE Gcd(_, _)
Gcd(a, b) == IF b = 0 THEN a ELSE Gcd(b, a % b)

\* the rational n/d (d >= 0) in lowest terms; d = 0 gives inf or NaN
Rat(n, d) ==
    IF d = 0 THEN <<(IF n > 0 THEN 1 ELSE IF n < 0 THEN -1 ELSE 0), 0>>
    ELSE LET g == Gcd(Abs(n), d) IN <<n \div g, d \div g>>

IsFinite(x) == x[2] > 0
F32(n)      == Rat(n, 1)                         \* `n as f32`
F32Div(x, y) ==
    IF IsFinite(x) /\ IsFinite(y)
    THEN (IF y[1] >= 0 THEN Rat(x[1] * y[2], x[2] * y[1])
                       ELSE Rat(-(x[1] * y[2]), -(x[2] * y[1])))
    ELSE <<0, 0>>
F32Mul(x, y) ==
    IF IsFinite(x) /\ IsFinite(y) THEN Rat(x[1] * y[1], x[2] * y[2])
    ELSE <<0, 0>>
\* x <= y on f32; every comparison with NaN is false
F32Le(x, y) ==
    IF IsFinite(x) /\ IsFinite(y) THEN x[1] * y[2] <= y[1] * x[2]
    ELSE /\ x # <<0, 0>> /\ y # <<0, 0>>
         /\ (x = <<-1, 0>> \/ y = <<1, 0>>)

F32Lt(x, y) == F32Le(x, y) /\ x # y
\* f32::clamp: NaN stays NaN
F32Clamp(x, lo, hi) == IF F32Lt(x, lo) THEN lo ELSE IF F32Lt(hi, x) THEN hi ELSE x

Zero    == F32(0)
Hundred == F32(100)

-----------------------------------------------------------------------------
(* MetricModel: GpuMetric and as_percentage *)

Power(d, l)    == [kind |-> "Power", draw_mw |-> d, limit_mw |-> l]
Utilization(p) == [kind |-> "Utilization", pct |-> p]
NoMetric       == [kind |-> "none"]

\* a plausible slip: the `*limit > 0` guard dropped
as_percentage_unguarded(m) ==
    IF m.kind = "Power"
    THEN IF m.limit_mw.some
         THEN F32Mul(F32Div(F32(m.draw_mw), F32(m.limit_mw.val)), Hundred)
         ELSE Zero
    ELSE m.pct

as_percentage(m) ==
    IF m.kind = "Power"
    THEN IF m.limit_mw.some
         THEN IF m.limit_mw.val > 0
              THEN F32Mul(F32Div(F32(m.draw_mw), F32(m.limit_mw.val)), Hundred)
              ELSE Zero
         ELSE Zero
    ELSE m.pct

is_power(m) == m.kind = "Power"

-----------------------------------------------------------------------------
(* ProcessUsageMerger: the `procs` HashMap<u32, (u64, u32)> of one device  *)

PIDS == {1, 2}

\* one element of process_utilization_stats
Samples == {[pid |-> p, sm_util |-> u[1], enc_util |-> u[2], dec_util |-> u[3]] :
               p \in PIDS, u \in {<<0, 0, 0>>, <<10, 10, 10>>, <<40, 0, 5>>}}

\* UsedGpuMemory
Unavailable == [used |-> FALSE]
Used(v)     == [used |-> TRUE, val |-> v]

\* one element of running_compute_processes / running_graphics_processes(_v2)
ProcessInfos == {[pid |-> p, used_gpu_memory |-> u] :
                    p \in PIDS, u \in {Unavailable, Used(500), Used(800), Used(1024)}}

SeqsUpTo(S, n) == UNION {[1..k -> S] : k \in 0..n}

UtilizationAnswers == {Err} \cup {Ok(s) : s \in SeqsUpTo(Samples, MaxProcLen)}
ProcessAnswers     == {Err} \cup {Ok(s) : s \in SeqsUpTo(ProcessInfos, MaxProcLen)}

EmptyMap == [p \in {} |-> <<0, 0>>]

\* HashMap::insert
Insert(m, k, v) == [p \in DOMAIN m \cup {k} |-> IF p = k THEN v ELSE m[p]]

GpuUtil(proc) == proc.sm_util + proc.enc_util + proc.dec_util

RECURSIVE UtilizationLoop(_, _)
UtilizationLoop(m, gpu_procs) ==
    IF gpu_procs = <<>> THEN m
    ELSE LET proc == Head(gpu_procs)
         IN  UtilizationLoop(Insert(m, proc.pid, <<0, GpuUtil(proc)>>),
                             Tail(gpu_procs))

GpuMem(proc) ==
    IF proc.used_gpu_memory.used THEN proc.used_gpu_memory.val ELSE 0

\* a plausible slip: the previous utilization is not carried over
SetMemoryResetsUtil(m, pid, gpu_mem) == Insert(m, pid, <<gpu_mem, 0>>)

\* a plausible slip: an existing entry keeps its memory (first value wins)
SetMemoryIfAbsent(m, pid, gpu_mem) ==
    IF pid \in DOMAIN m /\ m[pid][1] # 0 THEN m
    ELSE IF pid \in DOMAIN m THEN Insert(m, pid, <<gpu_mem, m[pid][2]>>)
    ELSE Insert(m, pid, <<gpu_mem, 0>>)

SetMemory(m, pid, gpu_mem) ==
    IF pid \in DOMAIN m THEN Insert(m, pid, <<gpu_mem, m[pid][2]>>)
    ELSE Insert(m, pid, <<gpu_mem, 0>>)

RECURSIVE MemoryLoop(_, _)
MemoryLoop(m, ps) ==
    IF ps = <<>> THEN m
    ELSE MemoryLoop(SetMemory(m, Head(ps).pid, GpuMem(Head(ps))), Tail(ps))

UtilizationPass(m, r) == IF r.ok THEN UtilizationLoop(m, r.val) ELSE m

\* a plausible slip: a failed source discards what was merged so far
ComputePassAbandons(m, r) == IF r.ok THEN MemoryLoop(m, r.val) ELSE EmptyMap

ComputePass(m, r)     == IF r.ok THEN MemoryLoop(m, r.val) ELSE m
GraphicsV2Pass(m, r)  == IF r.ok THEN MemoryLoop(m, r.val) ELSE m
GraphicsPass(m, r)    == IF r.ok THEN MemoryLoop(m, r.val) ELSE m

\* the whole merge of one device, lines 143-197
MergeProcs(r1, r2, r3, r4) ==
    GraphicsPass(GraphicsV2Pass(ComputePass(UtilizationPass(EmptyMap, r1), r2), r3), r4)

\* What one source reported, per pid: the last element of the answer that
\* names the pid.  Kept beside the map to state what the merge must compute.
LastFor(s, p) ==
    s[CHOOSE k \in 1..Len(s) :
         /\ s[k].pid = p
         /\ \A j \in (k + 1)..Len(s) : s[j].pid # p]
PidsOf(s) == {s[k].pid : k \in 1..Len(s)}
UtilReport(r) ==
    [ok |-> r.ok,
     by |-> IF r.ok
            THEN [p \in PidsOf(r.val) |->
                     LET e == LastFor(r.val, p)
                     IN  e.sm_util + e.enc_util + e.dec_util]
            ELSE EmptyMap]
MemReport(r) ==
    [ok |-> r.ok,
     by |-> IF r.ok
            THEN [p \in PidsOf(r.val) |-> LastFor(r.val, p).used_gpu_memory]
            ELSE EmptyMap]

not_merge == <<metric_vars, target_os, nvml_vars, call_vars, loop_vars, apple_vars,
               widget_vars>>

\* line 143: let mut procs = HashMap::new()
MergeBegin ==
    /\ pass = 4
    /\ procs' = EmptyMap /\ pass' = 0 /\ reported' = <<>>
    /\ UNCHANGED not_merge

\* lines 145-151: process_utilization_stats
MergeUtilization ==
    /\ pass = 0
    /\ \E r \in UtilizationAnswers :
          /\ procs' = UtilizationPass(procs, r)
          /\ reported' = Append(reported, UtilReport(r))
    /\ pass' = 1
    /\ UNCHANGED not_merge

\* lines 153-166: running_compute_processes
MergeCompute ==
    /\ pass = 1
    /\ \E r \in ProcessAnswers :
          /\ procs' = ComputePass(procs, r)
          /\ reported' = Append(reported, MemReport(r))
    /\ pass' = 2
    /\ UNCHANGED not_merge

\* lines 169-182: running_graphics_processes_v2
MergeGraphicsV2 ==
    /\ pass = 2
    /\ \E r \in ProcessAnswers :
          /\ procs' = GraphicsV2Pass(procs, r)
          /\ reported' = Append(reported, MemReport(r))
    /\ pass' = 3
    /\ UNCHANGED not_merge

\* lines 184-197: running_graphics_processes (legacy v1)
MergeGraphics ==
    /\ pass = 3
    /\ \E r \in ProcessAnswers :
          /\ procs' = GraphicsPass(procs, r)
          /\ reported' = Append(reported, MemReport(r))
    /\ pass' = 4
    /\ UNCHANGED not_merge

-----------------------------------------------------------------------------
(* Initial state: nothing projected, nothing merged, no probe call made *)

\* no loop step taken yet in this call
NoDevice == [step |-> "none"]

UsedWidgets == [use_mem : BOOLEAN, use_temp : BOOLEAN,
                use_proc : BOOLEAN, use_gpu : BOOLEAN]
NoWidgets   == [use_mem |-> FALSE, use_temp |-> FALSE,
                use_proc |-> FALSE, use_gpu |-> FALSE]

InitMetric == metric = NoMetric /\ pct = Zero
InitMerge  == procs = EmptyMap /\ pass = 0 /\ reported = <<>>
InitProbes ==
    /\ nvml_data = "uninit" /\ init_runs = 0 /\ fallback_runs = 0
    /\ ncalls = 0 /\ pc = "idle" /\ flags = NoWidgets /\ filter = None
    /\ result = None
    /\ num_gpu = 0 /\ idx = 0
    /\ mem_vec = <<>> /\ temp_vec = <<>> /\ proc_vec = <<>>
    /\ gpu_data_vec = <<>> /\ total_mem = 0
    /\ native = {} /\ device = NoDevice
    /\ iterator = 0 /\ service = None /\ a_vec = <<>> /\ io_log = <<>>
    /\ table = <<>> /\ force_update_data = FALSE /\ widget_op = [op |-> "new"]

-----------------------------------------------------------------------------
(* The metric model on its own: as_percentage applied to any GpuMetric *)

PowerMetrics == {Power(d, l) : d \in 0..MaxMw,
                               l \in {None} \cup {Some(v) : v \in 0..MaxMw}}
UtilizationMetrics == {Utilization(Rat(n, 2)) : n \in (-10)..210}

ProjectMetric ==
    /\ \E m \in PowerMetrics \cup UtilizationMetrics :
          /\ metric' = m
          /\ pct' = as_percentage(m)
    /\ UNCHANGED <<merge_vars, target_os, nvml_vars, call_vars, loop_vars,
                   apple_vars, widget_vars>>

InitProjection ==
    /\ InitMetric /\ InitMerge /\ InitProbes
    /\ target_os = "linux"

SpecMetric == InitProjection /\ [][ProjectMetric]_vars

\* C4: as_percentage is the reference projection: Utilization(p) gives p;
\* Power gives draw_mw / limit_mw * 100 when the limit is Some and > 0, and
\* 0 when the limit is None or Some(0); the result of a Power metric is
\* never the outcome of a division by zero and never negative.
C4_AsPercentageIsReference ==
    metric # NoMetric =>
       /\ metric.kind = "Utilization" => pct = metric.pct
       /\ metric.kind = "Power" =>
             /\ IsFinite(pct) /\ pct[1] >= 0
             /\ IF metric.limit_mw.some /\ metric.limit_mw.val > 0
                THEN pct[1] * metric.limit_mw.val = metric.draw_mw * 100 * pct[2]
                ELSE pct = Zero

C4_Witness ==
    /\ metric.kind = "Power" /\ metric.draw_mw > 0
    /\ metric.limit_mw = Some(0) /\ pct = Zero

-----------------------------------------------------------------------------
(* The process merge on its own: the four passes over one device's map *)

NextMerge ==
    \/ MergeBegin
    \/ MergeUtilization
    \/ MergeCompute
    \/ MergeGraphicsV2
    \/ MergeGraphics

InitMergeOnly ==
    /\ InitMetric /\ InitMerge /\ InitProbes
    /\ target_os = "linux"

SpecMerge == InitMergeOnly /\ [][NextMerge]_vars

Bytes(u) == IF u.used THEN u.val ELSE 0
Max(S)   == CHOOSE x \in S : \A y \in S : y <= x

\* C6: fields compose across passes: after the engine-utilization pass, and
\* after each later pass, utilization_pct of every pid in the map is the sum
\* sm_util + enc_util + dec_util that pass 1 reported for it, or 0 if pass 1
\* did not report the pid; the memory passes never change it.
C6_UtilizationSetByFirstPassOnly ==
    pass >= 1 =>
       \A pid \in DOMAIN procs :
          procs[pid][2] = IF pid \in DOMAIN reported[1].by
                          THEN reported[1].by[pid] ELSE 0

\* utilization 30 from source 1 and memory 1024 from source 2 only
C6_Witness ==
    /\ pass = 4 /\ 1 \in DOMAIN procs /\ procs[1] = <<1024, 30>>
    /\ 1 \in DOMAIN reported[1].by /\ reported[1].by[1] = 30
    /\ 1 \in DOMAIN reported[2].by /\ reported[2].by[1] = Used(1024)
    /\ 1 \notin DOMAIN reported[3].by /\ 1 \notin DOMAIN reported[4].by

ReportedPids == UNION {DOMAIN reported[k].by : k \in 1..pass}

\* C14: the key set of the merged map is the union of the pids reported by
\* the sources that succeeded; a pid reported only by the engine-utilization
\* source has memory_bytes 0, a pid reported only by memory sources has
\* utilization_pct 0, and a failed source contributes nothing and does not
\* keep the later sources from being applied.
C14_KeysAreUnionOfSucceededSources ==
    /\ DOMAIN procs = ReportedPids
    /\ \A pid \in DOMAIN procs :
          /\ (\A k \in 2..pass : pid \notin DOMAIN reported[k].by)
                => procs[pid][1] = 0
          /\ (pass >= 1 /\ pid \notin DOMAIN reported[1].by)
                => procs[pid][2] = 0

\* pid 1 comes from the engine-utilization source only, pid 2 from the legacy
\* graphics source only, and the two sources in between failed
C14_Witness ==
    /\ pass = 4 /\ DOMAIN procs = {1, 2}
    /\ reported[1].ok /\ DOMAIN reported[1].by = {1}
    /\ ~reported[2].ok /\ ~reported[3].ok
    /\ reported[4].ok /\ DOMAIN reported[4].by = {2}
    /\ procs[1] = <<0, 30>> /\ procs[2] = <<1024, 0>>

-----------------------------------------------------------------------------
(* NVIDIA probe: get_nvidia_vecs *)

DevName(i) == <<"gpu", i>>

\* what the driver may answer to each query of the per-device loop
NameAnswers(i)     == {Err, Ok(DevName(i))}
MemoryAnswers      == {Err, Ok([total |-> 0, used |-> 0]), Ok([total |-> 8, used |-> 3])}
TemperatureAnswers == {Err, Ok(40)}
PowerAnswers       == {Err, Ok(5)}
LimitAnswers       == {Err, Ok(4)}
ProbeUtilizationAnswers ==
    {Err, Ok(<<[pid |-> 1, sm_util |-> 10, enc_util |-> 10, dec_util |-> 10]>>)}
ProbeProcessAnswers == {Err, Ok(<<>>)}
\* the answers of the four process queries of one device: each of them may
\* fail alone, all may fail, none may fail
ProbeProcessQueries ==
    {q \in ProbeUtilizationAnswers \X ProbeProcessAnswers
              \X ProbeProcessAnswers \X ProbeProcessAnswers :
        Cardinality({k \in 1..4 : ~q[k].ok}) \in {0, 1, 4}}

\* the temperature filter: None, or a filter keeping only the first device
Filters == {None, Some({DevName(0)})}

\* Filter::optional_should_keep
optional_should_keep(f, name) == IF f.some THEN name \in f.val ELSE TRUE

\* the answers of a query that is made, and a placeholder when it is not
Asked(made, answers) == IF made THEN answers ELSE {Err}

If(made, cs) == IF made THEN cs ELSE <<>>
\* the entry points of the sequence cs, as recorded in `native`
Invoked(cs) == {cs[k] : k \in 1..Len(cs)}

\* a plausible slip: a failed first attempt is retried on the next call
get_or_init_retrying(cell) == cell # "ok"

\* OnceLock::get_or_init runs the initializer only on an empty cell
get_or_init_runs(cell) == cell = "uninit"

\* init_nvml: Nvml::init(), and on Linux the explicit-path fallback
init_nvml(os, first_ok, fallback_ok) ==
    IF os = "linux"
    THEN (IF first_ok THEN "ok" ELSE IF fallback_ok THEN "ok" ELSE "err")
    ELSE (IF first_ok THEN "ok" ELSE "err")
fallback_attempted(os, first_ok) == os = "linux" /\ ~first_ok

\* a plausible slip: a vertical queried although its flag is unset
AsksMemoryUnasked(fl) == TRUE
AsksProcsUnasked(fl)  == TRUE

\* lines 111, 125, 142, 210: the demand flag of each vertical
AsksMemory(fl)      == fl.use_mem
AsksTemperature(fl) == fl.use_temp
AsksProcs(fl)       == fl.use_proc
AsksGpu(fl)         == fl.use_gpu

\* lines 112-122: NonZeroU64::new(mem.total)
PushMemory(vec, name, asked, m) ==
    IF asked /\ m.ok /\ m.val.total # 0
    THEN Append(vec, <<name, [total_bytes |-> m.val.total, used_bytes |-> m.val.used]>>)
    ELSE vec

\* a plausible slip: a sensor that cannot be read is left out
PushTemperatureOmitsFailed(vec, name, asked, t) ==
    IF asked /\ t.ok
    THEN Append(vec, [name |-> name, temperature |-> Some(F32(t.val))])
    ELSE vec

\* lines 125-139
PushTemperature(vec, name, asked, t) ==
    IF asked
    THEN IF t.ok
         THEN Append(vec, [name |-> name, temperature |-> Some(F32(t.val))])
         ELSE Append(vec, [name |-> name, temperature |-> None])
    ELSE vec

\* a plausible slip: a failed memory read abandons the rest of the block
NamedVerticalsAbortOnMemory(mems, temps, name, ask_mem, m, ask_temp, t) ==
    IF ask_mem /\ ~m.ok THEN <<mems, temps>>
    ELSE <<PushMemory(mems, name, ask_mem, m),
           PushTemperature(temps, name, ask_temp, t)>>

\* lines 110-140: the two verticals read under `if let Ok(name)`, one after
\* the other; gives <<mem_vec, temp_vec>>
NamedVerticals(mems, temps, name, ask_mem, m, ask_temp, t) ==
    <<PushMemory(mems, name, ask_mem, m),
      PushTemperature(temps, name, ask_temp, t)>>

\* a plausible slip: the map is pushed without the emptiness test
PushProcsAlways(vec, m) == Append(vec, m)

\* lines 199-201
PushProcs(vec, m) == IF DOMAIN m # {} THEN Append(vec, m) ELSE vec

\* lines 204-206
AddTotal(total, m) == IF m.ok THEN total + m.val.total ELSE total

\* a plausible slip: the total is accumulated only beside a pushed map
ProcVerticalTotalWithMap(vec, total, merged, m) ==
    IF DOMAIN merged # {} THEN <<Append(vec, merged), AddTotal(total, m)>>
    ELSE <<vec, total>>

\* lines 199-206: the map is pushed if it is not empty; then, whatever the
\* map holds, memory_info is read for the total; gives <<proc_vec, total_mem>>
ProcVertical(vec, total, merged, m) ==
    <<PushProcs(vec, merged), AddTotal(total, m)>>

\* lines 211-222
PushGpuData(vec, nm, power, limit) ==
    IF nm.ok /\ power.ok
    THEN Append(vec, [name |-> nm.val,
                      metric |-> Power(power.val,
                                       IF limit.ok THEN Some(limit.val) ELSE None)])
    ELSE vec

\* a plausible slip: an empty list returned as Some
EmptyIsSome(vec) == Some(vec)

NonEmpty(vec) == IF vec # <<>> THEN Some(vec) ELSE None

\* lines 227-248
GpusData(mems, temps, total, maps, gpus) ==
    [memory      |-> NonEmpty(mems),
     temperature |-> NonEmpty(temps),
     procs       |-> IF maps # <<>> THEN Some(<<total, maps>>) ELSE None,
     gpu_data    |-> NonEmpty(gpus)]

\* lines 97-106: the session, device_count, the empty vectors
Call(max_calls, max_gpu) ==
    /\ target_os # "macos"
    /\ pc = "idle"
    /\ ncalls < max_calls
    /\ ncalls' = ncalls + 1
    /\ \E f \in UsedWidgets, flt \in Filters : flags' = f /\ filter' = flt
    /\ \E first_ok \in BOOLEAN, fallback_ok \in BOOLEAN,
          count \in {Err} \cup {Ok(n) : n \in 0..max_gpu} :
          LET runs     == get_or_init_runs(nvml_data)
              fallback == runs /\ fallback_attempted(target_os, first_ok)
              session  == IF runs THEN init_nvml(target_os, first_ok, fallback_ok)
                          ELSE nvml_data
          IN  /\ nvml_data' = session
              /\ init_runs' = init_runs + (IF runs THEN 1 ELSE 0)
              /\ fallback_runs' = fallback_runs + (IF fallback THEN 1 ELSE 0)
              /\ native' = Invoked(If(runs, <<"init">>) \o If(fallback, <<"init">>)
                                 \o If(session = "ok", <<"device_count">>))
              /\ IF session = "ok" /\ count.ok
                 THEN /\ num_gpu' = count.val
                      /\ pc' = "loop"
                      /\ result' = None
                 ELSE /\ num_gpu' = 0
                      /\ pc' = "done"
                      /\ result' = None
    /\ idx' = 0
    /\ mem_vec' = <<>> /\ temp_vec' = <<>> /\ proc_vec' = <<>>
    /\ gpu_data_vec' = <<>> /\ total_mem' = 0 /\ device' = NoDevice
    /\ UNCHANGED <<widget_vars, metric_vars, merge_vars, target_os, apple_vars>>

\* lines 108-140: device_by_index, name, the memory and temperature verticals
DeviceStep ==
    /\ pc = "loop" /\ idx < num_gpu
    /\ \E dev_ok \in BOOLEAN :
       \E nm \in Asked(dev_ok, NameAnswers(idx)) :
       LET ask_mem  == nm.ok /\ AsksMemory(flags)
           ask_temp == nm.ok /\ AsksTemperature(flags)
                             /\ optional_should_keep(filter, nm.val)
       IN  \E m \in Asked(ask_mem, MemoryAnswers),
              t \in Asked(ask_temp, TemperatureAnswers) :
              /\ IF nm.ok
                 THEN LET pushed == NamedVerticals(mem_vec, temp_vec, nm.val,
                                                   ask_mem, m, ask_temp, t)
                      IN  mem_vec' = pushed[1] /\ temp_vec' = pushed[2]
                 ELSE mem_vec' = mem_vec /\ temp_vec' = temp_vec
              /\ native' = native \cup Invoked(<<"device_by_index">>
                                  \o If(dev_ok, <<"name">>)
                                  \o If(ask_mem, <<"memory_info">>)
                                  \o If(ask_temp, <<"temperature">>))
              /\ device' = [step |-> "device", index |-> idx, by_index |-> dev_ok,
                             name |-> nm, memory |-> m, temperature |-> t]
              /\ IF dev_ok
                 THEN pc' = "procs" /\ idx' = idx
                 ELSE pc' = "loop" /\ idx' = idx + 1
    /\ UNCHANGED <<widget_vars, metric_vars, merge_vars, target_os, nvml_vars, ncalls, flags,
                   filter, result, num_gpu, proc_vec, gpu_data_vec, total_mem,
                   apple_vars>>

\* lines 142-207: the process vertical of the current device
ProcStep ==
    /\ pc = "procs"
    /\ \E q \in (IF AsksProcs(flags) THEN ProbeProcessQueries
                                     ELSE {<<Err, Err, Err, Err>>}),
          m \in Asked(AsksProcs(flags), MemoryAnswers) :
          LET merged == MergeProcs(q[1], q[2], q[3], q[4])
          IN  /\ device' = [step |-> "procs", index |-> idx,
                            merged |-> merged, memory |-> m]
              /\ IF AsksProcs(flags)
                 THEN /\ LET pushed == ProcVertical(proc_vec, total_mem, merged, m)
                         IN  proc_vec' = pushed[1] /\ total_mem' = pushed[2]
                      /\ native' = native \cup
                            Invoked(<<"process_utilization_stats",
                                      "running_compute_processes",
                                      "running_graphics_processes_v2",
                                      "running_graphics_processes",
                                      "memory_info">>)
                 ELSE UNCHANGED <<proc_vec, total_mem, native>>
    /\ pc' = "gpu"
    /\ UNCHANGED <<widget_vars, metric_vars, merge_vars, target_os, nvml_vars,
                   ncalls, flags, filter, result, num_gpu, idx, mem_vec,
                   temp_vec, gpu_data_vec, apple_vars>>

\* lines 209-224: the power vertical of the current device, end of the iteration
GpuStep ==
    /\ pc = "gpu"
    /\ \E nm \in Asked(AsksGpu(flags), NameAnswers(idx)) :
       \E power \in Asked(nm.ok, PowerAnswers) :
       \E limit \in Asked(power.ok, LimitAnswers) :
          /\ gpu_data_vec' = IF AsksGpu(flags)
                             THEN PushGpuData(gpu_data_vec, nm, power, limit)
                             ELSE gpu_data_vec
          /\ device' = [step |-> "gpu", index |-> idx, name |-> nm,
                         power |-> power, limit |-> limit]
          /\ native' = native \cup Invoked(If(AsksGpu(flags), <<"name">>)
                                      \o If(nm.ok, <<"power_usage">>)
                                      \o If(power.ok, <<"power_management_limit">>))
    /\ pc' = "loop" /\ idx' = idx + 1
    /\ UNCHANGED <<widget_vars, metric_vars, merge_vars, target_os, nvml_vars, ncalls, flags,
                   filter, result, num_gpu, mem_vec, temp_vec, proc_vec, total_mem,
                   apple_vars>>

\* lines 227-248: the loop is over, the result is assembled
Finish ==
    /\ pc = "loop" /\ idx = num_gpu
    /\ result' = Some(GpusData(mem_vec, temp_vec, total_mem, proc_vec, gpu_data_vec))
    /\ pc' = "done"
    /\ device' = NoDevice
    /\ UNCHANGED <<widget_vars, metric_vars, merge_vars, target_os, nvml_vars,
                   ncalls, flags, filter, num_gpu, idx, mem_vec, temp_vec,
                   proc_vec, gpu_data_vec, total_mem, native, apple_vars>>

\* the call has returned: its locals are gone, the caller holds the result
Return ==
    /\ pc = "done"
    /\ pc' = "idle"
    /\ flags' = NoWidgets /\ filter' = None /\ result' = None
    /\ num_gpu' = 0 /\ idx' = 0
    /\ mem_vec' = <<>> /\ temp_vec' = <<>> /\ proc_vec' = <<>>
    /\ gpu_data_vec' = <<>> /\ total_mem' = 0 /\ native' = {}
    /\ device' = NoDevice
    /\ iterator' = 0 /\ service' = None /\ a_vec' = <<>> /\ io_log' = <<>>
    /\ UNCHANGED <<widget_vars, metric_vars, merge_vars, target_os, nvml_vars, ncalls>>

\* a process that harvests several times, each time from few devices
InitSession ==
    /\ InitMetric /\ InitMerge /\ InitProbes
    /\ target_os \in {"linux", "windows"}

NextSession ==
    \/ Call(MaxCalls, MaxSessionGpu)
    \/ DeviceStep
    \/ ProcStep
    \/ GpuStep
    \/ Finish
    \/ Return

SpecSession == InitSession /\ [][NextSession]_vars

-----------------------------------------------------------------------------
(* macOS probe: get_apple_gpu_vecs over the IOAccelerator services *)

utilization_keys == <<"Device Utilization %", "GPU Activity(%)",
                      "GPU Core Utilization", "gpuCoreUtilization",
                      "GPU Utilization">>
UtilizationKeys == {utilization_keys[k] : k \in 1..Len(utilization_keys)}

\* CFType values of a PerformanceStatistics dictionary
Number(v) == [type |-> "number", val |-> v]
NotNumber == [type |-> "string"]
RawReadings == {Rat(-4, 1), Rat(75, 2), Rat(275, 2)}
CFValues == {NotNumber} \cup {Number(v) : v \in RawReadings}

\* the PerformanceStatistics dictionaries: none or one of the keys present
\* with any value, or two of the keys present with two different values, of
\* which at most one is out of the percent range
PairValues == {NotNumber, Number(Rat(75, 2)), Number(Rat(275, 2))}
PerfDicts ==
    UNION {[K -> CFValues] : K \in {{}} \cup {{a} : a \in UtilizationKeys}}
       \cup {d \in UNION {[{a, b} -> PairValues] : a, b \in UtilizationKeys} :
                \A a, b \in DOMAIN d : a # b => d[a] # d[b]}
EmptyProps   == [k \in {} |-> 0]
PerfProps(d) == [k \in {"PerformanceStatistics"} |-> d]

SvcName(k) == <<"svc", k>>
PropertiesAnswers == {Err, Ok(EmptyProps)} \cup {Ok(PerfProps(d)) : d \in PerfDicts}
ServiceAnswers(k) ==
    {[name |-> Err, properties |-> Err]}
       \cup {[name |-> Ok(SvcName(k)), properties |-> p] : p \in PropertiesAnswers}

\* CFDictionary::find
find(dict, key) == IF key \in DOMAIN dict THEN Some(dict[key]) ELSE None

\* lines 249-269
extract_number(value) ==
    IF value.type = "number" THEN Some(value.val) ELSE None

\* a plausible slip: the reading stored without the clamp
Unclamped(num) == num

\* line 240
ClampPercent(num) == F32Clamp(num, Zero, Hundred)

\* what the key loop gives: the utilization, and the keys it looked up
Looked(util, keys) == [util |-> util, consulted |-> keys]
After(key, rest) == Looked(rest.util, <<key>> \o rest.consulted)

RECURSIVE KeyLoopStopsAtPresent(_, _)
\* a plausible slip: the first key present ends the loop, number or not
KeyLoopStopsAtPresent(perf_stats, k) ==
    IF k > Len(utilization_keys) THEN Looked(None, <<>>)
    ELSE LET value == find(perf_stats, utilization_keys[k])
             num   == IF value.some THEN extract_number(value.val) ELSE None
         IN  IF value.some
             THEN Looked(IF num.some THEN Some(ClampPercent(num.val)) ELSE None,
                         <<utilization_keys[k]>>)
             ELSE After(utilization_keys[k], KeyLoopStopsAtPresent(perf_stats, k + 1))

RECURSIVE KeyLoop(_, _)
\* lines 235-245: the keys from position k on
KeyLoop(perf_stats, k) ==
    IF k > Len(utilization_keys) THEN Looked(None, <<>>)
    ELSE LET value == find(perf_stats, utilization_keys[k])
             num   == IF value.some THEN extract_number(value.val) ELSE None
         IN  IF num.some
             THEN Looked(Some(ClampPercent(num.val)), <<utilization_keys[k]>>)
             ELSE After(utilization_keys[k], KeyLoop(perf_stats, k + 1))

\* lines 210-246
get_utilization_from_properties(properties) ==
    LET perf_stats_value == find(properties, "PerformanceStatistics")
    IN  IF perf_stats_value.some THEN KeyLoop(perf_stats_value.val, 1).util
        ELSE None

\* lines 235-237: the keys get_utilization_from_properties looks up, in order
keys_consulted(properties) ==
    LET perf_stats_value == find(properties, "PerformanceStatistics")
    IN  IF perf_stats_value.some THEN KeyLoop(perf_stats_value.val, 1).consulted
        ELSE <<>>

unwrap_or(opt, default) == IF opt.some THEN opt.val ELSE default

\* a plausible slip: a service without a utilization reading is left out
extract_gpu_data_or_skip(sv) ==
    IF ~sv.name.ok THEN None
    ELSE IF ~sv.properties.ok THEN None
    ELSE LET utilization == get_utilization_from_properties(sv.properties.val)
         IN  IF utilization.some
             THEN Some([name |-> sv.name.val, metric |-> Utilization(utilization.val)])
             ELSE None

\* lines 151-162, on what the registry answers for the service
extract_gpu_data_from_service(sv) ==
    IF ~sv.name.ok THEN None
    ELSE IF ~sv.properties.ok THEN None
    ELSE Some([name   |-> sv.name.val,
               metric |-> Utilization(
                   unwrap_or(get_utilization_from_properties(sv.properties.val),
                             Zero))])

\* one IOKit / CoreFoundation call: the handle it is made on and the handle it
\* hands to the caller (NoHandle when there is none)
NoHandle == <<"none", 0>>
IOCall(c, on, got) == [call |-> c, on |-> on, got |-> got, key |-> ""]
\* CFDictionary::find of one key
IOFind(on, key) == [call |-> "find", on |-> on, got |-> NoHandle, key |-> key]
Matching      == <<"matching", 0>>
Iterator      == <<"iterator", 0>>
Service(k)    == <<"service", k>>
Properties(k) == <<"properties", k>>
PerfStats(k)  == <<"perf_stats", k>>

\* lines 156, 213, 235-237: the lookups made in the property dictionary of
\* service k and in its PerformanceStatistics sub-dictionary
Lookups(k, properties) ==
    LET keys == keys_consulted(properties)
    IN  <<IOFind(Properties(k), "PerformanceStatistics")>>
           \o [j \in 1..Len(keys) |-> IOFind(PerfStats(k), keys[j])]

\* the services IOIteratorNext has handed out so far
Visited == Cardinality({j \in 1..Len(io_log) :
                           /\ io_log[j].call = "IOIteratorNext"
                           /\ io_log[j].got # NoHandle})

\* a plausible slip: the service is released only when it gave a reading
ServiceCallsLeakOnFailure(k, sv) ==
    <<IOCall("IORegistryEntryGetName", Service(k), NoHandle)>>
       \o If(sv.name.ok,
             <<IOCall("IORegistryEntryCreateCFProperties", Service(k),
                      IF sv.properties.ok THEN Properties(k) ELSE NoHandle)>>)
       \o If(sv.name.ok /\ sv.properties.ok,
             Lookups(k, sv.properties.val)
                \o <<IOCall("CFRelease", Properties(k), NoHandle),
                     IOCall("IOObjectRelease", Service(k), NoHandle)>>)

\* lines 132-139, 151-162, 165-204: the calls made on one service, in order:
\* its name, its property dictionary (read, then dropped at the end of
\* extract_gpu_data_from_service), and the release of the service
ServiceCalls(k, sv) ==
    <<IOCall("IORegistryEntryGetName", Service(k), NoHandle)>>
       \o If(sv.name.ok,
             <<IOCall("IORegistryEntryCreateCFProperties", Service(k),
                      IF sv.properties.ok THEN Properties(k) ELSE NoHandle)>>)
       \o If(sv.name.ok /\ sv.properties.ok,
             Lookups(k, sv.properties.val)
                \o <<IOCall("CFRelease", Properties(k), NoHandle)>>)
       \o <<IOCall("IOObjectRelease", Service(k), NoHandle)>>

AppleWidgets == {f \in UsedWidgets : f.use_mem = f.use_temp /\ f.use_temp = f.use_proc}

\* lines 84-86 (negated): the probe goes on to collect
Harvests(f) == f.use_gpu

\* a plausible slip: an empty list returned as Some
AppleGpusDataUnchecked(vec) == Some([gpu_data |-> Some(vec)])

\* lines 90-96
AppleGpusData(vec) ==
    IF vec = <<>> THEN None ELSE Some([gpu_data |-> Some(vec)])

\* lines 83-88 and 100-122: the flag, the match dictionary, the iterator
AppleCall(max_calls) ==
    /\ target_os = "macos"
    /\ pc = "idle"
    /\ ncalls < max_calls
    /\ ncalls' = ncalls + 1
    /\ \E f \in AppleWidgets :
          /\ flags' = f
          /\ \E dict_null \in BOOLEAN, kr_ok \in BOOLEAN, n \in 0..MaxService :
                IF ~Harvests(f)
                THEN /\ io_log' = <<>>
                     /\ iterator' = 0 /\ pc' = "done"
                ELSE IF dict_null
                THEN /\ io_log' = <<IOCall("IOServiceMatching", NoHandle, NoHandle)>>
                     /\ iterator' = 0 /\ pc' = "done"
                ELSE IF ~kr_ok
                THEN /\ io_log' = <<IOCall("IOServiceMatching", NoHandle, Matching),
                                    IOCall("IOServiceGetMatchingServices", Matching,
                                           NoHandle)>>
                     /\ iterator' = 0 /\ pc' = "done"
                ELSE /\ io_log' = <<IOCall("IOServiceMatching", NoHandle, Matching),
                                    IOCall("IOServiceGetMatchingServices", Matching,
                                           Iterator)>>
                     /\ iterator' = n /\ pc' = "services"
    /\ result' = None /\ service' = None /\ a_vec' = <<>>
    /\ UNCHANGED <<widget_vars, metric_vars, merge_vars, target_os, nvml_vars, filter, loop_vars>>

\* a plausible slip: a service that gives no reading ends the probe
AfterServiceAborts(gpu_data) == IF gpu_data.some THEN "services" ELSE "done"

\* lines 132-140: whatever extraction gave, the loop goes on to IOIteratorNext
AfterService(gpu_data) == "services"

\* lines 125-140: one service of the iterator
VisitService ==
    /\ pc = "services" /\ iterator > 0
    /\ LET k == Visited + 1
       IN  \E sv \in ServiceAnswers(k) :
              LET gpu_data == extract_gpu_data_from_service(sv)
              IN  /\ service' = Some(sv)
                  /\ a_vec' = IF gpu_data.some THEN Append(a_vec, gpu_data.val)
                              ELSE a_vec
                  /\ io_log' = io_log
                        \o <<IOCall("IOIteratorNext", Iterator, Service(k))>>
                        \o ServiceCalls(k, sv)
                  /\ pc' = AfterService(gpu_data)
    /\ iterator' = iterator - 1
    /\ UNCHANGED <<widget_vars, metric_vars, merge_vars, target_os, nvml_vars,
                   ncalls, flags, filter, result, loop_vars>>

\* lines 127-130, 142-147 and 88-96: the iterator is exhausted
AppleFinish ==
    /\ pc = "services" /\ iterator = 0
    /\ io_log' = io_log \o <<IOCall("IOIteratorNext", Iterator, NoHandle),
                             IOCall("IOObjectRelease", Iterator, NoHandle)>>
    /\ result' = AppleGpusData(a_vec)
    /\ pc' = "done"
    /\ UNCHANGED <<widget_vars, metric_vars, merge_vars, target_os, nvml_vars, ncalls, flags,
                   filter, loop_vars, iterator, service, a_vec>>

-----------------------------------------------------------------------------
(* GPU widget: the legend table of GpuWidgetState *)

\* GpuWidgetTableData
All == [kind |-> "All"]
Entry(index, name, m) ==
    [kind |-> "Entry", index |-> index, name |-> name, metric |-> m]

\* lines 64-70
from_gpu_data(index, data) == Entry(index, data.name, data.metric)

\* the GpuData a harvest may hand to the widget
LegendData == {[name |-> n, metric |-> m] :
                  n \in {DevName(0), DevName(1)},
                  m \in {Power(5, Some(4)), Power(5, None), Utilization(Rat(75, 2))}}

\* DataTable::set_data: the table holds the rows it is given
set_data(tbl, rows) == rows

\* a plausible slip: the rows of the devices without the leading All row
LegendRowsWithoutAll(data) ==
    [i \in 1..Len(data) |-> from_gpu_data(i - 1, data[i])]

\* lines 214-220: once(All) chained with the enumerated devices, from index 0
LegendRows(data) ==
    <<All>> \o [i \in 1..Len(data) |-> from_gpu_data(i - 1, data[i])]

not_widget == <<metric_vars, merge_vars, target_os, nvml_vars, call_vars,
                loop_vars, apple_vars>>

\* lines 207-209
force_data_update ==
    /\ force_update_data' = TRUE
    /\ widget_op' = [op |-> "force_data_update"]
    /\ UNCHANGED <<table, not_widget>>

\* lines 212-223
set_legend_data ==
    /\ \E data \in SeqsUpTo(LegendData, MaxLegend) :
          /\ table' = set_data(table, LegendRows(data))
          /\ widget_op' = [op |-> "set_legend_data", data |-> data,
                           was_forced |-> force_update_data]
    /\ force_update_data' = FALSE
    /\ UNCHANGED not_widget

\* lines 175-203: GpuWidgetState::new
InitWidget ==
    /\ InitMetric /\ InitMerge /\ InitProbes
    /\ target_os = "linux"

NextWidget ==
    \/ force_data_update
    \/ set_legend_data

SpecWidget == InitWidget /\ [][NextWidget]_vars

\* C19: after set_legend_data(data) the legend table holds len(data) + 1
\* rows: row 0 is the All row and row i + 1 is the Entry with index i and the
\* name and metric of data[i], in the order of data; force_update_data is
\* false afterwards, whatever it was before.
C19_LegendIsAllThenDevices ==
    widget_op.op = "set_legend_data" =>
       LET data == widget_op.data
       IN  /\ Len(table) = Len(data) + 1
           /\ table[1] = All
           /\ \A i \in 0..(Len(data) - 1) :
                 /\ table[i + 2].kind = "Entry"
                 /\ table[i + 2].index = i
                 /\ table[i + 2].name = data[i + 1].name
                 /\ table[i + 2].metric = data[i + 1].metric
           /\ force_update_data = FALSE

\* two devices are set while an update was being forced
C19_Witness ==
    /\ widget_op.op = "set_legend_data" /\ widget_op.was_forced
    /\ Len(widget_op.data) = 2 /\ widget_op.data[1] # widget_op.data[2]
    /\ Len(table) = 3 /\ table[3].index = 1
    /\ table[3].name = widget_op.data[2].name
    /\ force_update_data = FALSE

-----------------------------------------------------------------------------
(* One harvest call of a fresh process, on the platform it was built for *)

Init ==
    /\ InitMetric /\ InitMerge /\ InitProbes
    /\ target_os \in {"linux", "macos"}

Next ==
    \/ Call(1, MaxGpu)
    \/ DeviceStep
    \/ ProcStep
    \/ GpuStep
    \/ Finish
    \/ AppleCall(1)
    \/ VisitService
    \/ AppleFinish
    \/ Return

Spec == Init /\ [][Next]_vars

\* the macOS build on its own: get_apple_gpu_vecs is the whole probe
InitApple ==
    /\ InitMetric /\ InitMerge /\ InitProbes
    /\ target_os = "macos"

NextApple ==
    \/ AppleCall(1)
    \/ VisitService
    \/ AppleFinish
    \/ Return

SpecApple == InitApple /\ [][NextApple]_vars

-----------------------------------------------------------------------------
(* Properties of one harvest call *)

OnNvidia == target_os # "macos"
OnApple  == target_os = "macos"

\* no vertical of the returned GpusData is present
FullyAbsent(r) ==
    r.some => /\ r.val.memory = None /\ r.val.temperature = None
              /\ r.val.procs = None /\ r.val.gpu_data = None

EnumerationCalls == {"init", "device_count", "device_by_index", "name"}

\* C1 as stated: with all four demand flags false, get_nvidia_vecs invokes no
\* native driver query of any kind, and the returned result is fully absent.
\* (Opening the session is left out of the count here, so that the statement
\* is judged on the queries alone.)
C1_NoNativeCallWhenNothingRequested ==
    (OnNvidia /\ pc = "done" /\ flags = NoWidgets) =>
       native \ {"init"} = {} /\ FullyAbsent(result)

\* C1 as amended: with all four demand flags false, get_nvidia_vecs invokes
\* none of the per-vertical queries (memory_info, temperature, the four
\* process queries, power_usage, power_management_limit); it still opens the
\* session, counts the devices, looks each one up and reads its name; every
\* vertical of the returned result is absent.
C1_OnlyEnumerationWhenNothingRequested ==
    (OnNvidia /\ pc # "idle" /\ flags = NoWidgets) =>
       /\ native \subseteq EnumerationCalls
       /\ pc = "done" => FullyAbsent(result)

C1_Witness ==
    /\ OnNvidia /\ pc = "done" /\ flags = NoWidgets
    /\ num_gpu = MaxGpu /\ result.some
    /\ native = EnumerationCalls

\* C2: each vertical of the GpusData get_nvidia_vecs returns whose demand
\* flag is false is None, and a vertical that is Some holds at least one item.
C2_OnlyRequestedVerticalsAndNeverEmpty ==
    (OnNvidia /\ pc = "done" /\ result.some) =>
       LET r == result.val
       IN  /\ ~flags.use_mem  => r.memory = None
           /\ ~flags.use_temp => r.temperature = None
           /\ ~flags.use_proc => r.procs = None
           /\ ~flags.use_gpu  => r.gpu_data = None
           /\ r.memory.some      => Len(r.memory.val) >= 1
           /\ r.temperature.some => Len(r.temperature.val) >= 1
           /\ r.procs.some       => Len(r.procs.val[2]) >= 1
           /\ r.gpu_data.some    => Len(r.gpu_data.val) >= 1

\* two devices answer every query, only memory and temperature are requested,
\* and the filter drops every temperature entry
C2_Witness ==
    /\ OnNvidia /\ pc = "done" /\ result.some
    /\ flags = [use_mem |-> TRUE, use_temp |-> TRUE,
                use_proc |-> FALSE, use_gpu |-> FALSE]
    /\ result.val.memory.some /\ Len(result.val.memory.val) = 2
    /\ "temperature" \in native
    /\ result.val.procs = None /\ result.val.gpu_data = None

\* C3: a probe that discovers zero devices (device_count answers 0, or the
\* IOAccelerator iterator yields no service) returns no vertical at all, and
\* never a present-but-empty list, whatever the demand flags.
C3_ZeroDevicesIsAbsent ==
    /\ (OnNvidia /\ pc = "done" /\ num_gpu = 0) => FullyAbsent(result)
    /\ (OnApple /\ pc = "done" /\ Visited = 0) => result = None

C3_Witness ==
    /\ OnNvidia /\ pc = "done" /\ num_gpu = 0 /\ result.some
    /\ flags = [use_mem |-> TRUE, use_temp |-> TRUE,
                use_proc |-> TRUE, use_gpu |-> TRUE]

InPercentRange(x) == F32Le(Zero, x) /\ F32Le(x, Hundred)

\* C5 as stated: for every GpuMetric a probe returns, as_percentage is in the
\* range 0 to 100.
C5_PercentageWithinRange ==
    (pc = "done" /\ result.some /\ result.val.gpu_data.some) =>
       \A j \in 1..Len(result.val.gpu_data.val) :
          InPercentRange(as_percentage(result.val.gpu_data.val[j].metric))

\* the raw reading of a service whose dictionary holds one key, a number
HasSingleReading(sv) ==
    /\ sv.name.ok /\ sv.properties.ok
    /\ "PerformanceStatistics" \in DOMAIN sv.properties.val
    /\ LET d == sv.properties.val["PerformanceStatistics"]
       IN  Cardinality(DOMAIN d) = 1 /\ \A k \in DOMAIN d : d[k].type = "number"
SingleReading(sv) ==
    LET d == sv.properties.val["PerformanceStatistics"]
    IN  d[CHOOSE k \in DOMAIN d : TRUE].val

C9_AppleNoneOrNonEmpty ==
    (OnApple /\ pc = "done") =>
       /\ result.some => /\ result.val.gpu_data.some
                         /\ Len(result.val.gpu_data.val) >= 1
       /\ ~flags.use_gpu => result = None /\ io_log = <<>>
       /\ flags.use_gpu => Len(io_log) >= 1 /\ io_log[1].call = "IOServiceMatching"
       \* the dictionary was null: nothing else was called
       /\ Len(io_log) = 1 => result = None
       \* IOServiceGetMatchingServices failed: no iterator was obtained
       /\ (Len(io_log) = 2 /\ io_log[2].got = NoHandle) => result = None
       /\ a_vec = <<>> => result = None

\* services were enumerated and none of them gave a reading
C9_Witness ==
    /\ OnApple /\ pc = "done" /\ flags.use_gpu
    /\ Visited = MaxService /\ a_vec = <<>> /\ result = None

\* the service last visited gave a PerformanceStatistics dictionary
HasPerfStats ==
    /\ OnApple /\ service.some
    /\ service.val.name.ok /\ service.val.properties.ok
    /\ "PerformanceStatistics" \in DOMAIN service.val.properties.val
LastPerfStats == service.val.properties.val["PerformanceStatistics"]
\* the keys looked up in the PerformanceStatistics of the service last visited
LastConsulted ==
    LET finds == SelectSeq(io_log, LAMBDA e : e.on = PerfStats(Visited))
    IN  [j \in 1..Len(finds) |-> finds[j].key]
LastReading == a_vec[Len(a_vec)].metric.pct
KeyAt(i) == utilization_keys[i]
Min(S) == CHOOSE x \in S : \A y \in S : x <= y
PresentKeys(d) == {i \in 1..Len(utilization_keys) : KeyAt(i) \in DOMAIN d}
NumericKeys(d) == {i \in PresentKeys(d) : d[KeyAt(i)].type = "number"}

\* C15 as stated: the keys are tried in the fixed order and the first key
\* present in the dictionary wins: once a key is found, no later key of the
\* list is consulted.
C15_FirstPresentKeyWins ==
    (HasPerfStats /\ PresentKeys(LastPerfStats) # {}) =>
       LastConsulted = SubSeq(utilization_keys, 1, Min(PresentKeys(LastPerfStats)))

\* C15 as amended: the keys are tried in the fixed order and the first key
\* present with a numeric value wins: its clamped value is the reading and no
\* later key is consulted; a key present with a value that is not a number is
\* passed over, and with no numeric key every key is consulted and the
\* reading is 0.
C15_FirstNumericKeyWins ==
    HasPerfStats =>
       LET d == LastPerfStats
       IN  /\ a_vec # <<>> /\ a_vec[Len(a_vec)].name = service.val.name.val
           /\ IF NumericKeys(d) # {}
              THEN LET first == Min(NumericKeys(d))
                   IN  /\ LastConsulted = SubSeq(utilization_keys, 1, first)
                       /\ LastReading = F32Clamp(d[KeyAt(first)].val, Zero, Hundred)
              ELSE /\ LastConsulted = utilization_keys
                   /\ LastReading = Zero

\* the first key holds a string and the third a number: the third is read
C15_Witness ==
    /\ HasPerfStats
    /\ DOMAIN LastPerfStats = {KeyAt(1), KeyAt(3)}
    /\ LastPerfStats[KeyAt(1)] = NotNumber
    /\ LastPerfStats[KeyAt(3)] = Number(Rat(75, 2))
    /\ LastConsulted = SubSeq(utilization_keys, 1, 3)
    /\ LastReading = Rat(75, 2)

\* the readings the probe holds for the service last visited
LastService == SvcName(Visited)
ReadingsOfLast == {j \in 1..Len(a_vec) : a_vec[j].name = LastService}
\* step 3 failed on the service last visited: its name or its property set
NoNameOrProperties ==
    /\ OnApple /\ service.some
    /\ ~(service.val.name.ok /\ service.val.properties.ok)
\* step 5 or 6 failed on it: no known key is present, or a value is no number
NoKeyOrNotNumeric ==
    /\ HasPerfStats
    /\ \/ PresentKeys(LastPerfStats) = {}
       \/ NumericKeys(LastPerfStats) # PresentKeys(LastPerfStats)

\* C16 as stated: a failure on one service at any of steps 3 to 6 (name read,
\* property-set read, utilization-key match, numeric conversion) yields a
\* skipped device: the probe holds no reading for that service.
C16_FailedServiceIsSkipped ==
    (NoNameOrProperties \/ NoKeyOrNotNumeric) => ReadingsOfLast = {}

\* C16 as amended: a service whose name or property set cannot be read is
\* skipped; a service in whose statistics no known key holds a number is not
\* skipped, it gives a reading of Utilization(0.0); no failure on a service
\* aborts the enumeration: the readings of earlier services are kept and
\* every remaining service of the iterator is still visited.
C16_FailureNeverAbortsEnumeration ==
    OnApple =>
       /\ NoNameOrProperties => ReadingsOfLast = {}
       /\ (HasPerfStats /\ NumericKeys(LastPerfStats) = {}) =>
             /\ ReadingsOfLast = {Len(a_vec)}
             /\ a_vec[Len(a_vec)].metric = Utilization(Zero)
       /\ \A j \in 1..Len(a_vec) :
             \E k \in 1..Visited :
                /\ a_vec[j].name = SvcName(k)
                /\ \A i \in 1..(j - 1) : \E h \in 1..(k - 1) : a_vec[i].name = SvcName(h)
       /\ pc = "services" => Len(io_log) >= 2 /\ io_log[2].got = Iterator
       /\ (pc = "done" /\ Len(io_log) >= 2 /\ io_log[2].got = Iterator) =>
             /\ iterator = 0
             /\ io_log[Len(io_log) - 1] = IOCall("IOIteratorNext", Iterator, NoHandle)

\* the name of the first service could not be read; the second service was
\* still visited and gave the only reading
C16_Witness ==
    /\ OnApple /\ pc = "done" /\ Visited = 2
    /\ \A j \in 1..Len(io_log) :
          io_log[j].call # "IORegistryEntryCreateCFProperties"
             \/ io_log[j].on # Service(1)
    /\ Len(a_vec) = 1 /\ a_vec[1].name = SvcName(2)
    /\ result = Some([gpu_data |-> Some(a_vec)])

\* C17: a service whose name and property set are readable but whose
\* property set has no "PerformanceStatistics" sub-dictionary is not omitted:
\* it gives a reading with Utilization(0.0), and no utilization key is
\* looked up for it.
C17_NoStatisticsReadsZero ==
    (/\ OnApple /\ service.some
     /\ service.val.name.ok /\ service.val.properties.ok
     /\ "PerformanceStatistics" \notin DOMAIN service.val.properties.val)
       => /\ a_vec # <<>>
          /\ a_vec[Len(a_vec)] = [name |-> LastService, metric |-> Utilization(Zero)]
          /\ ReadingsOfLast = {Len(a_vec)}
          /\ LastConsulted = <<>>
          /\ pc = "done" => result = Some([gpu_data |-> Some(a_vec)])

\* the only service has an empty property set: the probe returns its reading
C17_Witness ==
    /\ OnApple /\ pc = "done" /\ Visited = 1
    /\ service = Some([name |-> Ok(SvcName(1)), properties |-> Ok(EmptyProps)])
    /\ result = Some([gpu_data |-> Some(<<[name |-> SvcName(1),
                                          metric |-> Utilization(Zero)]>>)])

\* the handles the macOS probe must give back: services, property
\* dictionaries and the iterator
Owned(h) == h[1] \in {"service", "properties", "iterator"}
IsRelease(e) == e.call \in {"CFRelease", "IOObjectRelease"}
Acquisitions(h) == {j \in 1..Len(io_log) : io_log[j].got = h}
Releases(h)     == {j \in 1..Len(io_log) : IsRelease(io_log[j]) /\ io_log[j].on = h}
Uses(h)         == {j \in 1..Len(io_log) : io_log[j].on = h}
Handles == {io_log[j].got : j \in 1..Len(io_log)}
               \cup {io_log[j].on : j \in 1..Len(io_log)}

\* C11: when collect_gpu_data returns, on every exit path, every service
\* obtained from IOIteratorNext has been released exactly once (also when its
\* name or its properties could not be read), every property dictionary
\* created has been released, and the iterator has been released exactly once,
\* after the loop; no handle is used before it is obtained or after its
\* release, and none is still held when the call is over.
C11_HandlesReleasedOnEveryPath ==
    OnApple =>
       \A h \in {g \in Handles : Owned(g)} :
          LET acquired == Acquisitions(h)
              released == Releases(h)
              used     == Uses(h)
          IN  /\ Cardinality(acquired) = 1
              /\ Cardinality(released) <= 1
              /\ pc = "done" => Cardinality(released) = 1
              /\ \A a \in acquired, u \in used :
                    /\ a < u
                    /\ \A r \in released : u <= r
              \* a property dictionary is gone before its service is
              /\ h[1] = "properties" =>
                    \A r \in released, q \in Releases(Service(h[2])) : r < q
              \* the iterator is released after every service, at the very end
              /\ (h = Iterator /\ pc = "done") => released = {Len(io_log)}

\* the name of service 1 could not be read, service 2 gave its properties:
\* both were released, and so were the dictionary and the iterator
C11_Witness ==
    /\ OnApple /\ pc = "done" /\ Visited = 2
    /\ Uses(Service(1)) # {} /\ Properties(1) \notin Handles
    /\ \A j \in Uses(Service(1)) :
          io_log[j].call \in {"IORegistryEntryGetName", "IOObjectRelease"}
    /\ Cardinality(Releases(Service(1))) = 1
    /\ Cardinality(Releases(Properties(2))) = 1
    /\ Cardinality(Releases(Service(2))) = 1
    /\ Releases(Iterator) = {Len(io_log)}

-----------------------------------------------------------------------------
(* Properties of the per-device loop of get_nvidia_vecs *)

\* the loop step being taken visits a device whose name was read
NamedDeviceStep ==
    /\ pc = "loop" /\ device'.step = "device"
    /\ device'.by_index /\ device'.name.ok

\* the memory entry a memory_info answer stands for
MemEntry(name, m) == <<name, [total_bytes |-> m.val.total, used_bytes |-> m.val.used]>>

\* C12: for a device whose name is readable, with temperature requested and
\* the name passing the filter, a failed temperature read still adds exactly
\* one temperature entry for the device, with temperature None, and the
\* device's memory entry is what the memory answer alone makes it, as if the
\* sensor had been read.
C12_FailedSensorStillListed ==
    [][(/\ NamedDeviceStep
        /\ flags.use_temp /\ optional_should_keep(filter, device'.name.val)
        /\ ~device'.temperature.ok)
       => /\ temp_vec' = Append(temp_vec, [name |-> device'.name.val,
                                          temperature |-> None])
          /\ mem_vec' = IF /\ flags.use_mem /\ device'.memory.ok
                           /\ device'.memory.val.total # 0
                        THEN Append(mem_vec, MemEntry(device'.name.val, device'.memory))
                        ELSE mem_vec]_vars

\* the sensor of the second device failed, its memory was read
C12_Witness ==
    /\ OnNvidia /\ device.step = "device" /\ device.index = 1
    /\ device.name.ok /\ flags.use_temp /\ flags.use_mem
    /\ optional_should_keep(filter, device.name.val)
    /\ ~device.temperature.ok /\ device.memory.ok /\ device.memory.val.total = 8
    /\ temp_vec # <<>>
    /\ temp_vec[Len(temp_vec)] = [name |-> DevName(1), temperature |-> None]
    /\ mem_vec # <<>> /\ mem_vec[Len(mem_vec)][1] = DevName(1)

\* the temperature entry a sensor answer stands for
TempEntry(name, t) ==
    [name |-> name, temperature |-> IF t.ok THEN Some(F32(t.val)) ELSE None]
\* the power entry the power answers stand for
PowerEntry(name, power, limit) ==
    [name |-> name,
     metric |-> Power(power.val, IF limit.ok THEN Some(limit.val) ELSE None)]

\* C13: a failed native read of one vertical on one device changes nothing in
\* the other verticals of that device and nothing in what earlier devices
\* left: in every loop step each vertical keeps what it held and gains what
\* its own answers alone stand for, the step goes on to the next vertical or
\* device whatever the answers were, and a failed device_by_index changes no
\* vertical and moves to the next device.
C13_FailureStaysInItsVertical ==
    /\ [][(pc = "loop" /\ device'.step = "device") =>
             LET d == device'
                 named == d.by_index /\ d.name.ok
             IN  /\ UNCHANGED <<proc_vec, gpu_data_vec, total_mem>>
                 /\ mem_vec' =
                       IF /\ named /\ flags.use_mem
                          /\ d.memory.ok /\ d.memory.val.total # 0
                       THEN Append(mem_vec, MemEntry(d.name.val, d.memory))
                       ELSE mem_vec
                 /\ temp_vec' =
                       IF /\ named /\ flags.use_temp
                          /\ optional_should_keep(filter, d.name.val)
                       THEN Append(temp_vec, TempEntry(d.name.val, d.temperature))
                       ELSE temp_vec
                 /\ IF d.by_index
                    THEN pc' = "procs" /\ idx' = idx
                    ELSE pc' = "loop" /\ idx' = idx + 1]_vars
    /\ [][pc = "procs" =>
             /\ UNCHANGED <<mem_vec, temp_vec, gpu_data_vec>>
             /\ proc_vec' \in {proc_vec, Append(proc_vec, device'.merged)}
             /\ pc' = "gpu" /\ idx' = idx]_vars
    /\ [][pc = "gpu" =>
             LET d == device'
             IN  /\ UNCHANGED <<mem_vec, temp_vec, proc_vec, total_mem>>
                 /\ gpu_data_vec' =
                       IF flags.use_gpu /\ d.name.ok /\ d.power.ok
                       THEN Append(gpu_data_vec,
                                   PowerEntry(d.name.val, d.power, d.limit))
                       ELSE gpu_data_vec
                 /\ pc' = "loop" /\ idx' = idx + 1]_vars
    /\ [](pc = "done" /\ result.some => idx = num_gpu)

\* everything is requested; power_usage failed on the second device, which
\* still has its memory and temperature entries, and the first device keeps
\* its power entry
C13_Witness ==
    /\ OnNvidia /\ device.step = "gpu" /\ device.index = 1
    /\ flags = [use_mem |-> TRUE, use_temp |-> TRUE,
                use_proc |-> TRUE, use_gpu |-> TRUE]
    /\ device.name.ok /\ ~device.power.ok
    /\ Len(mem_vec) = 2 /\ mem_vec[2][1] = DevName(1)
    /\ Len(temp_vec) = 2 /\ temp_vec[2].name = DevName(1)
    /\ Len(gpu_data_vec) = 1 /\ gpu_data_vec[1].name = DevName(0)

\* C18: with process accounting requested, a device whose merge gave no
\* process adds no map to the process vertical, yet its total memory is added
\* to the running total; the running total starts at 0, grows by the total
\* memory of every visited device whose memory read succeeded and by nothing
\* else, and is what is returned beside the maps.
C18_TotalCountsDevicesWithoutProcesses ==
    /\ [][(pc = "procs" /\ flags.use_proc) =>
             LET d == device'
             IN  /\ proc_vec' = IF DOMAIN d.merged = {} THEN proc_vec
                                ELSE Append(proc_vec, d.merged)
                 /\ total_mem' = total_mem + (IF d.memory.ok
                                              THEN d.memory.val.total ELSE 0)]_vars
    /\ [][(pc \in {"loop", "gpu"} \/ (pc = "procs" /\ ~flags.use_proc)) =>
             /\ proc_vec' = proc_vec
             /\ total_mem' = total_mem]_vars
    /\ [][pc = "idle" => (total_mem' = 0 /\ proc_vec' = <<>>)]_vars
    /\ [](OnNvidia /\ pc = "done" /\ result.some =>
             result.val.procs = IF proc_vec = <<>> THEN None
                                ELSE Some(<<total_mem, proc_vec>>))

\* the first device has a process and 8 bytes, the second has no process and
\* 8 bytes: one map, a total of 16
C18_Witness ==
    /\ OnNvidia /\ flags.use_proc
    /\ device.step = "procs" /\ device.index = 1
    /\ DOMAIN device.merged = {}
    /\ device.memory.ok /\ device.memory.val.total = 8
    /\ Len(proc_vec) = 1 /\ total_mem = 16

\* the device index behind a device name
IndexOf(name) == name[2]
\* the device indices behind the entries of a vertical, in order
MemIndices  == [j \in 1..Len(mem_vec) |-> IndexOf(mem_vec[j][1])]
TempIndices == [j \in 1..Len(temp_vec) |-> IndexOf(temp_vec[j].name)]
GpuIndices  == [j \in 1..Len(gpu_data_vec) |-> IndexOf(gpu_data_vec[j].name)]
\* strictly ascending indices of devices the loop has reached
AscendingBelow(s, n) ==
    /\ \A j \in 1..Len(s) : s[j] \in 0..(n - 1)
    /\ \A i, j \in 1..Len(s) : i < j => s[i] < s[j]

\* C20: in the result of get_nvidia_vecs the memory, temperature and gpu_data
\* verticals hold at most one entry per device, in ascending device-index
\* order; the process vertical holds at most one map per device, appended in
\* device order, and every map in it is non-empty; so the position of an
\* entry in a vertical need not be its device index.
C20_VerticalsInDeviceOrder ==
    /\ [](OnNvidia =>
            LET reached == IF pc \in {"procs", "gpu"} THEN idx + 1 ELSE idx
                powered == idx
                merged  == IF pc = "gpu" THEN idx + 1 ELSE idx
            IN  /\ AscendingBelow(MemIndices, reached)
                /\ AscendingBelow(TempIndices, reached)
                /\ AscendingBelow(GpuIndices, powered)
                /\ Len(proc_vec) <= merged
                /\ \A j \in 1..Len(proc_vec) : DOMAIN proc_vec[j] # {}
                /\ (pc = "done" /\ result.some) =>
                      /\ idx = num_gpu
                      /\ result.val.memory = NonEmpty(mem_vec)
                      /\ result.val.temperature = NonEmpty(temp_vec)
                      /\ result.val.gpu_data = NonEmpty(gpu_data_vec)
                      /\ result.val.procs.some => result.val.procs.val[2] = proc_vec)
    /\ [][pc = "procs" =>
             proc_vec' \in {proc_vec, Append(proc_vec, device'.merged)}]_vars
    /\ [][(pc \in {"loop", "gpu"}) => proc_vec' = proc_vec]_vars

\* the first device gave no memory entry and has no process: position 1 of
\* the memory vertical and of the process vertical is the second device
C20_Witness ==
    /\ OnNvidia /\ pc = "done" /\ result.some /\ num_gpu = 2
    /\ result.val.memory.some /\ Len(result.val.memory.val) = 1
    /\ IndexOf(result.val.memory.val[1][1]) = 1
    /\ result.val.temperature.some /\ Len(result.val.temperature.val) = 2
    /\ result.val.procs.some /\ Len(result.val.procs.val[2]) = 1

-----------------------------------------------------------------------------
(* Properties of the driver session over the calls of one process *)

\* C10: over any sequence of get_nvidia_vecs calls of one process, init_nvml
\* runs at most once and its explicit-path fallback is attempted at most once;
\* the first outcome is kept, never torn down and never retried, so after a
\* failed initialization every later call returns None without initializing.
C10_SessionInitializedOnce ==
    /\ [](init_runs <= 1 /\ fallback_runs <= 1)
    /\ [][nvml_data # "uninit" =>
             /\ nvml_data' = nvml_data
             /\ init_runs' = init_runs /\ fallback_runs' = fallback_runs]_vars
    /\ [][(nvml_data = "err" /\ ncalls' = ncalls + 1) =>
             /\ result' = None /\ pc' = "done" /\ native' = {}]_vars

C10_Witness ==
    /\ target_os = "linux" /\ ncalls = MaxCalls /\ pc = "done"
    /\ nvml_data = "err" /\ init_runs = 1 /\ fallback_runs = 1
    /\ result = None /\ native = {}

=============================================================================
